---- MODULE Spec2Model ----
(***************************************************************************)
(* Model of the staking script builder of btc-staking-ts:                  *)
(*   src/src/utils/formatMs.ts          the miniscript template renderer   *)
(*   src/src/utils/stakingScriptMini.ts the StakingScriptDataMini class    *)
(*                                                                         *)
(* JavaScript strings are TLA+ strings, Buffers are sequences of bytes     *)
(* (0..255), and a thrown Error is a result record with ok = FALSE that    *)
(* carries the error message.                                              *)
(***************************************************************************)
EXTENDS Integers, Sequences, FiniteSets, TLC

\* ------------------------------------------------------------------------
\* Results of a call: a returned value or a thrown error.

Ok(v) == [ok |-> TRUE, val |-> v, err |-> ""]

Throw(msg) == [ok |-> FALSE, val |-> "", err |-> msg]

\* ------------------------------------------------------------------------
\* JavaScript values that reach the renderer as template arguments.

Undefined == [kind |-> "undefined"]

BufferVal(bytes) == [kind |-> "buffer", bytes |-> bytes]

StringVal(s) == [kind |-> "string", str |-> s]

NumberVal(n) == [kind |-> "number", num |-> n]

BooleanVal(b) == [kind |-> "boolean", bool |-> b]

MiniscriptVal(s) == [kind |-> "miniscript", str |-> s]

ArrayVal(elems) == [kind |-> "array", elems |-> elems]

\* typeof arg, for the values above (an array is an object).
typeofJs(arg) ==
  CASE arg.kind = "string" -> "string"
    [] arg.kind = "number" -> "number"
    [] arg.kind = "boolean" -> "boolean"
    [] arg.kind = "undefined" -> "undefined"
    [] OTHER -> "object"

\* ------------------------------------------------------------------------
\* Buffer.prototype.toString("hex"): two lowercase hex digits per byte.

HexDigits == "0123456789abcdef"

hexDigit(n) == SubSeq(HexDigits, n + 1, n + 1)

hexByte(b) == hexDigit(b \div 16) \o hexDigit(b % 16)

\* The digits of the first half of the bytes followed by those of the rest.
RECURSIVE toStringHex(_)
toStringHex(bytes) ==
  IF Len(bytes) = 0 THEN ""
  ELSE IF Len(bytes) = 1 THEN hexByte(bytes[1])
  ELSE LET half == Len(bytes) \div 2 IN
       toStringHex(SubSeq(bytes, 1, half))
         \o toStringHex(SubSeq(bytes, half + 1, Len(bytes)))

\* Number.prototype.toString() for integers: decimal digits, "-" when negative.
RECURSIVE digitsOf(_)
digitsOf(n) ==
  IF n < 10 THEN hexDigit(n)
  ELSE digitsOf(n \div 10) \o hexDigit(n % 10)

numberToString(n) == IF n < 0 THEN "-" \o digitsOf(0 - n) ELSE digitsOf(n)

\* ------------------------------------------------------------------------
\* formatMs.ts

\* The characters the regular expression class \s matches (of those a TLA+
\* string can hold).
WhiteSpace == {" ", "\t", "\n", "\r", "\f"}

IsWs(c) == c \in WhiteSpace

CharAt(str, i) == SubSeq(str, i, i)

\* Where the first match of \s+ in str starts, Len(str) + 1 if there is none.
matchStart(str) ==
  IF \E i \in 1..Len(str) : IsWs(CharAt(str, i))
  THEN CHOOSE i \in 1..Len(str) :
         IsWs(CharAt(str, i)) /\ \A j \in 1..(i - 1) : ~IsWs(CharAt(str, j))
  ELSE Len(str) + 1

\* The first position after the match of \s+ that starts at position from:
\* the match takes the whole run of whitespace.
matchEnd(str, from) ==
  IF \E i \in from..Len(str) : ~IsWs(CharAt(str, i))
  THEN CHOOSE i \in from..Len(str) :
         ~IsWs(CharAt(str, i)) /\ \A j \in from..(i - 1) : IsWs(CharAt(str, j))
  ELSE Len(str) + 1

\* str.replace(/\s+/, ""): without the g flag only the first run is removed.
replaceFirstWs(str) ==
  LET start == matchStart(str) IN
  IF start > Len(str) THEN str
  ELSE SubSeq(str, 1, start - 1)
         \o SubSeq(str, matchEnd(str, start), Len(str))

\* str.replace(/\s+/g, ""): every match, a maximal run of whitespace, is
\* removed, and the search goes on after it.
RECURSIVE replaceWs(_)
replaceWs(str) ==
  LET start == matchStart(str) IN
  IF start > Len(str) THEN str
  ELSE SubSeq(str, 1, start - 1)
         \o replaceWs(SubSeq(str, matchEnd(str, start), Len(str)))

formatArg(arg) ==
  CASE arg.kind = "buffer" -> Ok(toStringHex(arg.bytes))
    [] arg.kind = "miniscript" -> Ok(arg.str)
    [] arg.kind = "string" -> Ok(arg.str)
    [] arg.kind = "number" -> Ok(numberToString(arg.num))
    [] OTHER -> Throw("Unsupported type: " \o typeofJs(arg))

IsSupportedElement(e) == e.kind \in {"buffer", "miniscript", "string", "number"}

RECURSIVE joinComma(_)
joinComma(strs) ==
  IF strs = <<>> THEN ""
  ELSE IF Len(strs) = 1 THEN Head(strs)
  ELSE Head(strs) \o "," \o joinComma(Tail(strs))

\* flatArray that formats whatever it is given, without the every() check.
flatArrayUnchecked(arr) ==
  Ok(joinComma([i \in 1..Len(arr) |->
       IF IsSupportedElement(arr[i]) THEN formatArg(arr[i]).val ELSE ""]))

\* flatArray that ends every element with a separator.
flatArrayTrailing(arr) ==
  IF \A i \in 1..Len(arr) : IsSupportedElement(arr[i])
  THEN Ok(joinComma([i \in 1..Len(arr) |-> formatArg(arr[i]).val])
          \o (IF Len(arr) > 0 THEN "," ELSE ""))
  ELSE Throw("Unsupported type")

flatArray(arr) ==
  IF \A i \in 1..Len(arr) : IsSupportedElement(arr[i])
  THEN Ok(joinComma([i \in 1..Len(arr) |-> formatArg(arr[i]).val]))
  ELSE Throw("Unsupported type")

RECURSIVE formatMs(_, _)
formatMs(str, arg) ==
  LET s == replaceWs(str) IN
  IF arg.kind = "undefined" THEN Ok(s)
  ELSE IF arg.kind = "array"
  THEN LET flat == flatArray(arg.elems) IN
       IF flat.ok THEN formatMs(s, StringVal(flat.val)) ELSE flat
  ELSE LET a == formatArg(arg) IN
       IF a.ok THEN Ok(s \o a.val) ELSE a

\* args[i] of the rest parameter: undefined past its end.
ArgAt(args, i) == IF i <= Len(args) THEN args[i] ELSE Undefined

\* strings.reduce((acc, str, i) => acc + formatMs(str, args[i]), "") over the
\* fragments from..Len(strings), started from acc.
RECURSIVE reduceMs(_, _, _, _)
reduceMs(strings, args, from, acc) ==
  IF from > Len(strings) THEN Ok(acc)
  ELSE LET r == formatMs(strings[from], ArgAt(args, from)) IN
       IF r.ok THEN reduceMs(strings, args, from + 1, acc \o r.val) ELSE r

\* The msString of formatMsVararg.
msStringOf(strings, args) == reduceMs(strings, args, 1, "")

\* Miniscript.fromString(msString, "tap"): the external compiler either
\* accepts the text or throws; accepts is its verdict on this text.
formatMsVararg(strings, args, accepts) ==
  LET ms == msStringOf(strings, args) IN
  IF ~ms.ok THEN ms
  ELSE IF accepts THEN Ok(MiniscriptVal(ms.val))
  ELSE Throw("PolicyCompilationError")

\* ------------------------------------------------------------------------
\* The renderer on its own: a template (the literal fragments of a tagged
\* template), its arguments, and the msString the renderer produces for it.

VARIABLES
  strings,      \* the literal fragments of the template
  args,         \* the values of its slots
  msString,     \* result of the latest rendering, NotRendered before it
  firstMs,      \* result of the first rendering
  edits         \* number of whitespace edits made to the template

renderVars == <<strings, args, msString, firstMs, edits>>

\* The caller's heap, the constructor call and the object it makes.
VARIABLES
  bufs,         \* contents of the caller's Buffers, by identity
  lists,        \* contents of the caller's key arrays, by identity
  params,       \* the arguments of new StakingScriptDataMini(...)
  phase,        \* "new", then "constructed" or "rejected"
  obj,          \* the private fields of the object, NoObject if none exists
  ctorError,    \* message of the Error the constructor threw, "" if none
  firstEmbed,   \* result of the first buildDataEmbedScript call
  lastEmbed,    \* result of the latest buildDataEmbedScript call
  firstSlashing, \* result of the first buildSlashingScript call
  lastSlashing, \* result of the latest buildSlashingScript call
  verdicts,     \* the policy compiler's verdicts in the latest buildScripts
  scripts,      \* result of the latest buildScripts call
  callerOps     \* number of times the caller changed a buffer or array

objVars ==
  <<bufs, lists, params, phase, obj, ctorError, firstEmbed, lastEmbed,
    firstSlashing, lastSlashing, verdicts, scripts, callerOps>>

vars == <<renderVars, objVars>>

\* ------------------------------------------------------------------------
\* stakingScriptMini.ts

\* PK_LENGTH denotes the length of a public key in bytes
PK_LENGTH == 32

\* Largest value of an unsigned 16-bit integer.
UINT16_MAX == 65535

\* null / undefined passed where a Buffer or an array is expected.
Null == "null"

Fill(n, b) == [i \in 1..n |-> b]

\* The Buffers the caller allocates, by identity, with their first contents.
InitialBufs ==
  [ k31 |-> Fill(31, 2), kA |-> Fill(32, 0), kB |-> Fill(32, 255),
    kC |-> Fill(32, 1), m0 |-> <<>>, m4 |-> <<170, 187, 204, 221>> ]

BufIds == DOMAIN InitialBufs

\* The two arrays the caller allocates for the key lists.
FpList == "fpList"

CovList == "covList"

NoObject == [exists |-> FALSE]

\* The assignments this.#field = argument: references are stored as given.
fieldsOf(p) ==
  [ exists |-> TRUE,
    stakerKey |-> p.stakerKey,
    finalityProviderKeys |-> p.finalityProviderKeys,
    covenantKeys |-> p.covenantKeys,
    covenantThreshold |-> p.covenantThreshold,
    stakingTimeLock |-> p.stakingTimelock,
    unbondingTimeLock |-> p.unbondingTimelock,
    magicBytes |-> p.magicBytes ]

\* The Buffers of a key array, read through the heap.
KeysOf(ls, bs, list) == [i \in 1..Len(ls[list]) |-> bs[ls[list][i]]]

\* The first if of the constructor: some required input is falsy.
missingInput(p) ==
  \/ p.stakerKey = Null
  \/ p.finalityProviderKeys = Null
  \/ p.covenantKeys = Null
  \/ p.covenantThreshold = 0
  \/ p.stakingTimelock = 0
  \/ p.unbondingTimelock = 0
  \/ p.magicBytes = Null

\* validate with the uint16 bound off by one.
validateOffByOne(o, bs, ls) ==
  /\ Len(bs[o.stakerKey]) = PK_LENGTH
  /\ ~\E i \in 1..Len(ls[o.finalityProviderKeys]) :
        Len(bs[ls[o.finalityProviderKeys][i]]) # PK_LENGTH
  /\ ~\E i \in 1..Len(ls[o.covenantKeys]) :
        Len(bs[ls[o.covenantKeys][i]]) # PK_LENGTH
  /\ ~(o.stakingTimeLock >= UINT16_MAX)

validate(o, bs, ls) ==
  /\ Len(bs[o.stakerKey]) = PK_LENGTH
  /\ ~\E i \in 1..Len(ls[o.finalityProviderKeys]) :
        Len(bs[ls[o.finalityProviderKeys][i]]) # PK_LENGTH
  /\ ~\E i \in 1..Len(ls[o.covenantKeys]) :
        Len(bs[ls[o.covenantKeys][i]]) # PK_LENGTH
  /\ ~(o.stakingTimeLock > UINT16_MAX)

\* The constructor: the error it throws, "" when it returns.
constructorError(p, bs, ls) ==
  IF missingInput(p) THEN "Missing required input values"
  ELSE IF ~validate(fieldsOf(p), bs, ls) THEN "Invalid script data provided"
  ELSE ""

\* Compiled scripts.  The two external encoders are kept abstract: a policy
\* script holds the policy text it was compiled from, the data embed script
\* the opcode and the data push handed to script.compile.
NoScript == [kind |-> "none", policy |-> "", op |-> "", data |-> <<>>]

OkScript(sc) == [ok |-> TRUE, val |-> sc, err |-> ""]

ThrowScript(msg) == [ok |-> FALSE, val |-> NoScript, err |-> msg]

NotBuilt == ThrowScript("<not built>")

\* toBuffer(ms): Buffer.from(ms.encode()) of a Miniscript parsed under "tap".
toBuffer(ms) == [kind |-> "tap", policy |-> ms.str, op |-> "", data |-> <<>>]

\* toBuffer(miniscript`...`): an error of the renderer or of the compiler
\* passes through unchanged.
compiled(res) == IF res.ok THEN OkScript(toBuffer(res.val)) ELSE ThrowScript(res.err)

buildTimelockScript(o, bs, timelock, accepts) ==
  compiled(formatMsVararg(
    <<"and_v(v:pk(", "),older(", "))">>,
    <<BufferVal(bs[o.stakerKey]), NumberVal(timelock)>>, accepts))

buildStakingTimelockScript(o, bs, accepts) ==
  buildTimelockScript(o, bs, o.stakingTimeLock, accepts)

buildUnbondingTimelockScript(o, bs, accepts) ==
  buildTimelockScript(o, bs, o.unbondingTimeLock, accepts)

BufferVals(keys) == [i \in 1..Len(keys) |-> BufferVal(keys[i])]

buildUnbondingScript(o, bs, ls, accepts) ==
  compiled(formatMsVararg(
    << "and_v(\n        v:pk(", "),\n        multi_a(\n          ",
       ",\n          ", "\n          )\n        )" >>,
    << BufferVal(bs[o.stakerKey]), NumberVal(o.covenantThreshold),
       ArrayVal(BufferVals(KeysOf(ls, bs, o.covenantKeys))) >>, accepts))

Reverse(seq) == [i \in 1..Len(seq) |-> seq[Len(seq) + 1 - i]]

SlashingStrings ==
  << "\n    and_v(\n      and_v(\n        v:pk(", "),\n        ",
     "\n      ),\n      multi_a(", ",", ")\n    )" >>

\* buildSlashingScript that puts the covenant keys in the opposite order.
buildSlashingScriptReordered(o, bs, ls, accepts) ==
  compiled(formatMsVararg(
    SlashingStrings,
    << BufferVal(bs[o.stakerKey]),
       ArrayVal([i \in 1..Len(ls[o.finalityProviderKeys]) |->
          StringVal("v:pk(" \o toStringHex(bs[ls[o.finalityProviderKeys][i]])
                    \o ")")]),
       NumberVal(o.covenantThreshold),
       ArrayVal(BufferVals(Reverse(KeysOf(ls, bs, o.covenantKeys)))) >>,
    accepts))

buildSlashingScript(o, bs, ls, accepts) ==
  compiled(formatMsVararg(
    SlashingStrings,
    << BufferVal(bs[o.stakerKey]),
       ArrayVal([i \in 1..Len(ls[o.finalityProviderKeys]) |->
          StringVal("v:pk(" \o toStringHex(bs[ls[o.finalityProviderKeys][i]])
                    \o ")")]),
       NumberVal(o.covenantThreshold),
       ArrayVal(BufferVals(KeysOf(ls, bs, o.covenantKeys))) >>,
    accepts))

\* buf.writeUInt16LE(value): the low byte first.
writeUInt16LE(value) ==
  IF value < 0 \/ value > UINT16_MAX THEN Throw("RangeError: out of range")
  ELSE Ok(<<value % 256, value \div 256>>)

\* Buffer.alloc(2).writeUInt16BE(value): the two bytes, high byte first; a
\* value outside 0..65535 throws.
writeUInt16BE(value) ==
  IF value < 0 \/ value > UINT16_MAX THEN Throw("RangeError: out of range")
  ELSE Ok(<<value \div 256, value % 256>>)

OP_RETURN == "OP_RETURN"

\* script.compile([opcodes.OP_RETURN, data]).
compileOpReturn(data) == [kind |-> "raw", policy |-> "", op |-> OP_RETURN, data |-> data]

buildDataEmbedScript(o, bs, ls) ==
  LET version == <<0>>
      stakingTimeLock == writeUInt16BE(o.stakingTimeLock)
  IN IF ~stakingTimeLock.ok THEN ThrowScript(stakingTimeLock.err)
     ELSE IF Len(ls[o.finalityProviderKeys]) = 0
     THEN ThrowScript("TypeError: list[3] is not a Buffer")
     ELSE OkScript(compileOpReturn(
            bs[o.magicBytes] \o version \o bs[o.stakerKey]
            \o bs[ls[o.finalityProviderKeys][1]] \o stakingTimeLock.val))

PolicyBuilds ==
  {"timelockScript", "unbondingScript", "slashingScript", "unbondingTimelockScript"}

\* The fields of the bundle, in the order the object literal evaluates them.
BundleFields ==
  << "timelockScript", "unbondingScript", "slashingScript",
     "unbondingTimelockScript", "dataEmbedScript" >>

\* The sub-build behind each field; v[f] is the compiler's verdict on the
\* policy of field f.
subBuild(f, o, bs, ls, v) ==
  CASE f = "timelockScript" -> buildStakingTimelockScript(o, bs, v[f])
    [] f = "unbondingScript" -> buildUnbondingScript(o, bs, ls, v[f])
    [] f = "slashingScript" -> buildSlashingScript(o, bs, ls, v[f])
    [] f = "unbondingTimelockScript" -> buildUnbondingTimelockScript(o, bs, v[f])
    [] f = "dataEmbedScript" -> buildDataEmbedScript(o, bs, ls)

EmptyBundle == [f \in {} |-> NoScript]

NoBundle == [ok |-> FALSE, bundle |-> EmptyBundle, err |-> "<not built>"]

SubBuilds(o, bs, ls, v) ==
  [i \in 1..Len(BundleFields) |-> subBuild(BundleFields[i], o, bs, ls, v)]

IndexOf(f) == CHOOSE i \in 1..Len(BundleFields) : BundleFields[i] = f

\* buildScripts that swallows a failing sub-build and leaves its field out.
buildScriptsPartial(o, bs, ls, v) ==
  LET res == SubBuilds(o, bs, ls, v)
      good == {i \in 1..Len(BundleFields) : res[i].ok}
  IN [ok |-> TRUE,
      bundle |-> [f \in {BundleFields[i] : i \in good} |-> res[IndexOf(f)].val],
      err |-> ""]

\* buildScripts: the fields are evaluated in order and the first exception
\* leaves the function.
buildScripts(o, bs, ls, v) ==
  LET res == SubBuilds(o, bs, ls, v)
      failing == {i \in 1..Len(BundleFields) : ~res[i].ok}
  IN IF failing = {}
     THEN [ok |-> TRUE,
           bundle |-> [f \in {BundleFields[i] : i \in 1..Len(BundleFields)} |->
                         res[IndexOf(f)].val],
           err |-> ""]
     ELSE LET first == CHOOSE i \in failing : \A j \in failing : i <= j
          IN [ok |-> FALSE, bundle |-> EmptyBundle, err |-> res[first].err]

AllAccepted == [f \in PolicyBuilds |-> TRUE]

\* The verdicts of the compiler that are told apart: it accepts every policy,
\* rejects exactly one, or rejects them all.
Verdicts ==
  {AllAccepted, [f \in PolicyBuilds |-> FALSE]}
    \cup {[f \in PolicyBuilds |-> f # g] : g \in PolicyBuilds}

\* No constructor call has been made.
ObjIdle ==
  /\ bufs = InitialBufs
  /\ lists = [fpList |-> <<>>, covList |-> <<>>]
  /\ params = [stakerKey |-> Null, finalityProviderKeys |-> Null,
               covenantKeys |-> Null, covenantThreshold |-> 0,
               stakingTimelock |-> 0, unbondingTimelock |-> 0,
               magicBytes |-> Null]
  /\ phase = "new"
  /\ obj = NoObject
  /\ ctorError = ""
  /\ firstEmbed = NotBuilt
  /\ lastEmbed = NotBuilt
  /\ firstSlashing = NotBuilt
  /\ lastSlashing = NotBuilt
  /\ verdicts = AllAccepted
  /\ scripts = NoBundle
  /\ callerOps = 0

\* Largest number of whitespace edits made to one template.
MaxEdits == 1

NotRendered == [ok |-> FALSE, val |-> "", err |-> "<not rendered>"]

Buf1 == BufferVal(<<171, 205>>)

Buf2 == BufferVal(<<0, 255>>)

Buf3 == BufferVal(<<9>>)

ScalarArgs ==
  { Buf1, Buf2, StringVal("x y"), StringVal("v:pk(ab)"), NumberVal(2),
    MiniscriptVal("pk(cd)"), Undefined, BooleanVal(TRUE) }

ArrayArgs ==
  { ArrayVal(<<>>), ArrayVal(<<Buf1>>), ArrayVal(<<Buf2, Buf1>>),
    ArrayVal(<<Buf1, Buf2, Buf1>>), ArrayVal(<<Buf1, NumberVal(2)>>),
    ArrayVal(<<StringVal("x y"), Buf2>>),
    ArrayVal(<<StringVal("v:pk(ab)"), StringVal("v:pk(cd)")>>),
    ArrayVal(<<Buf1, BooleanVal(TRUE)>>), ArrayVal(<<Undefined, Buf1>>),
    ArrayVal(<<Buf1, ArrayVal(<<Buf2>>)>>) }

TemplateArgs == ScalarArgs \cup ArrayArgs

\* Templates with one slot, as in the tests, and with none, two and three.
Templates1 ==
  { <<"pk(", ")">>, <<"\n pk(\n\t", "\r\n )">>, <<"multi_a(2, ", ")">>,
    <<"a  b \f c(", "">> }

InitRender ==
  /\ \/ /\ strings \in Templates1
        /\ args \in {<<a>> : a \in TemplateArgs}
     \/ /\ strings = <<" older( 144 ) ">>
        /\ args = <<>>
     \/ /\ strings = <<"and_v(v:pk(", "), multi_a(", "))">>
        /\ args \in {<<a, b>> : a \in {Buf1, BooleanVal(TRUE), NumberVal(2)},
                                b \in ArrayArgs}
     \/ /\ strings = <<"multi_a(2, ", ", ", ", ", ")">>
        /\ args \in {<<a, b, c>> : a \in {Buf1, Buf2}, b \in {Buf1, Buf3},
                                   c \in {Buf2, Buf3}}
  /\ msString = NotRendered
  /\ firstMs = NotRendered
  /\ edits = 0
  /\ ObjIdle

\* The caller evaluates the tagged template.
Render ==
  LET r == msStringOf(strings, args) IN
  /\ msString' = r
  /\ firstMs' = IF firstMs = NotRendered THEN r ELSE firstMs
  /\ UNCHANGED <<strings, args, edits, objVars>>

InsertAt(str, pos, ch) ==
  SubSeq(str, 1, pos) \o ch \o SubSeq(str, pos + 1, Len(str))

RemoveAt(str, pos) == SubSeq(str, 1, pos - 1) \o SubSeq(str, pos + 1, Len(str))

\* The author of the template adds a whitespace character to a fragment.
InsertWhitespace ==
  /\ edits < MaxEdits
  /\ \E i \in 1..Len(strings) : \E pos \in 0..Len(strings[i]) :
       \E ch \in {" ", "\t", "\n", "\r"} :
         strings' = [strings EXCEPT ![i] = InsertAt(strings[i], pos, ch)]
  /\ edits' = edits + 1
  /\ UNCHANGED <<args, msString, firstMs, objVars>>

\* The author of the template removes a whitespace character from a fragment.
RemoveWhitespace ==
  /\ edits < MaxEdits
  /\ \E i \in 1..Len(strings) : \E pos \in 1..Len(strings[i]) :
       /\ SubSeq(strings[i], pos, pos) \in {" ", "\t", "\n", "\r"}
       /\ strings' = [strings EXCEPT ![i] = RemoveAt(strings[i], pos)]
  /\ edits' = edits + 1
  /\ UNCHANGED <<args, msString, firstMs, objVars>>

NextRender == Render \/ InsertWhitespace \/ RemoveWhitespace

SpecRender == InitRender /\ [][NextRender]_vars

\* ------------------------------------------------------------------------
\* The class in use: one constructor call, then build calls on the object.

RenderIdle ==
  /\ strings = <<"">>
  /\ args = <<>>
  /\ msString = NotRendered
  /\ firstMs = NotRendered
  /\ edits = 0

\* Largest number of changes the caller makes to its buffers and arrays.
MaxCallerOps == 2

StakerChoices == {Null, "k31", "kC"}

FpChoices == {<<>>, <<"kB">>, <<"kB", "kA">>, <<"k31">>}

CovChoices == {<<"kC", "kA", "kA">>, <<"kB", "k31">>}

ThresholdChoices == {0, 2, 4}

StakingTimelockChoices == {0 - 1, 0, 100, 65535, 65536}

UnbondingTimelockChoices == {0, 144}

MagicChoices == {Null, "m0", "m4"}

ObjFresh ==
  /\ bufs = InitialBufs
  /\ phase = "new"
  /\ obj = NoObject
  /\ ctorError = ""
  /\ firstEmbed = NotBuilt
  /\ lastEmbed = NotBuilt
  /\ firstSlashing = NotBuilt
  /\ lastSlashing = NotBuilt
  /\ verdicts = AllAccepted
  /\ scripts = NoBundle
  /\ callerOps = 0

\* The caller has prepared the arguments of the constructor call.
Init ==
  /\ RenderIdle
  /\ ObjFresh
  /\ \E f \in FpChoices, c \in CovChoices :
       lists = [fpList |-> f, covList |-> c]
  /\ params \in
       [ stakerKey : StakerChoices,
         finalityProviderKeys : {Null, FpList},
         covenantKeys : {Null, CovList},
         covenantThreshold : ThresholdChoices,
         stakingTimelock : StakingTimelockChoices,
         unbondingTimelock : UnbondingTimelockChoices,
         magicBytes : MagicChoices ]
  /\ params.finalityProviderKeys = Null => lists.fpList = <<>>
  /\ params.covenantKeys = Null => lists.covList = <<>>

\* new StakingScriptDataMini(...params).
Construct ==
  /\ phase = "new"
  /\ LET e == constructorError(params, bufs, lists) IN
       /\ ctorError' = e
       /\ phase' = IF e = "" THEN "constructed" ELSE "rejected"
       /\ obj' = IF e = "" THEN fieldsOf(params) ELSE NoObject
  /\ UNCHANGED <<bufs, lists, params, firstEmbed, lastEmbed, firstSlashing,
                 lastSlashing, verdicts, scripts, callerOps, renderVars>>

\* obj.buildDataEmbedScript().
BuildDataEmbedScript ==
  /\ phase = "constructed"
  /\ LET r == buildDataEmbedScript(obj, bufs, lists) IN
       /\ lastEmbed' = r
       /\ firstEmbed' = IF firstEmbed = NotBuilt THEN r ELSE firstEmbed
  /\ UNCHANGED <<bufs, lists, params, phase, obj, ctorError, firstSlashing,
                 lastSlashing, verdicts, scripts, callerOps, renderVars>>

\* obj.buildSlashingScript(); the compiler accepts the policy or not.
BuildSlashingScript ==
  /\ phase = "constructed"
  /\ \E accepts \in BOOLEAN :
       LET r == buildSlashingScript(obj, bufs, lists, accepts) IN
         /\ lastSlashing' = r
         /\ firstSlashing' = IF firstSlashing = NotBuilt THEN r ELSE firstSlashing
  /\ UNCHANGED <<bufs, lists, params, phase, obj, ctorError, firstEmbed,
                 lastEmbed, verdicts, scripts, callerOps, renderVars>>

\* obj.buildScripts(); v holds the compiler's verdict on each policy.
BuildScripts ==
  /\ phase = "constructed"
  /\ \E v \in Verdicts :
       /\ verdicts' = v
       /\ scripts' = buildScripts(obj, bufs, lists, v)
  /\ UNCHANGED <<bufs, lists, params, phase, obj, ctorError, firstEmbed,
                 lastEmbed, firstSlashing, lastSlashing, callerOps, renderVars>>

Next == Construct \/ BuildDataEmbedScript \/ BuildSlashingScript \/ BuildScripts

Spec == Init /\ [][Next]_vars

\* ------------------------------------------------------------------------
\* The caller keeps the buffers and arrays it passed to the constructor and
\* changes them while the object is in use.

InitCaller ==
  /\ RenderIdle
  /\ ObjFresh
  /\ \E f \in {<<"kB">>, <<"kB", "kA">>} :
       lists = [fpList |-> f, covList |-> <<"kC", "kA", "kA">>]
  /\ params = [ stakerKey |-> "kC", finalityProviderKeys |-> FpList,
                covenantKeys |-> CovList, covenantThreshold |-> 2,
                stakingTimelock |-> 100, unbondingTimelock |-> 144,
                magicBytes |-> "m4" ]

\* buf[0] = value, on a buffer that was passed to the constructor.
CallerWritesByte ==
  /\ phase = "constructed"
  /\ callerOps < MaxCallerOps
  /\ \E b \in {params.stakerKey, params.magicBytes, "kB"} :
       /\ Len(bufs[b]) > 0
       /\ bufs' = [bufs EXCEPT ![b][1] = 127]
  /\ callerOps' = callerOps + 1
  /\ UNCHANGED <<lists, params, phase, obj, ctorError, firstEmbed, lastEmbed,
                 firstSlashing, lastSlashing, verdicts, scripts, renderVars>>

\* keys.pop(), on an array that was passed to the constructor.
CallerPopsKey ==
  /\ phase = "constructed"
  /\ callerOps < MaxCallerOps
  /\ \E l \in {FpList, CovList} :
       /\ Len(lists[l]) > 0
       /\ lists' = [lists EXCEPT ![l] = SubSeq(lists[l], 1, Len(lists[l]) - 1)]
  /\ callerOps' = callerOps + 1
  /\ UNCHANGED <<bufs, params, phase, obj, ctorError, firstEmbed, lastEmbed,
                 firstSlashing, lastSlashing, verdicts, scripts, renderVars>>

\* keys.push(key), on an array that was passed to the constructor.
CallerPushesKey ==
  /\ phase = "constructed"
  /\ callerOps < MaxCallerOps
  /\ \E l \in {FpList, CovList}, b \in {"k31", "kA"} :
       lists' = [lists EXCEPT ![l] = Append(lists[l], b)]
  /\ callerOps' = callerOps + 1
  /\ UNCHANGED <<bufs, params, phase, obj, ctorError, firstEmbed, lastEmbed,
                 firstSlashing, lastSlashing, verdicts, scripts, renderVars>>

NextCaller ==
  \/ Construct
  \/ BuildDataEmbedScript
  \/ BuildSlashingScript
  \/ CallerWritesByte
  \/ CallerPopsKey
  \/ CallerPushesKey

SpecCaller == InitCaller /\ [][NextCaller]_vars

\* ------------------------------------------------------------------------
\* Properties of the renderer.

\* A fragment without its whitespace characters.
RECURSIVE keepNonWs(_)
keepNonWs(str) ==
  IF Len(str) = 0 THEN ""
  ELSE IF Len(str) = 1
  THEN (IF str \in {" ", "\t", "\n", "\r", "\f"} THEN "" ELSE str)
  ELSE LET half == Len(str) \div 2 IN
       keepNonWs(SubSeq(str, 1, half))
         \o keepNonWs(SubSeq(str, half + 1, Len(str)))

StrippedTemplate(frags) == [i \in 1..Len(frags) |-> keepNonWs(frags[i])]

\* The text a supported argument contributes to the policy string.
ArgText(arg) ==
  CASE arg.kind = "undefined" -> ""
    [] arg.kind = "string" -> arg.str
    [] arg.kind = "miniscript" -> arg.str
    [] arg.kind = "number" -> numberToString(arg.num)
    [] arg.kind = "buffer" -> toStringHex(arg.bytes)
    [] arg.kind = "array" ->
         joinComma([i \in 1..Len(arg.elems) |-> formatArg(arg.elems[i]).val])

RECURSIVE Interleave(_, _, _)
Interleave(frags, as, from) ==
  IF from > Len(frags) THEN ""
  ELSE frags[from] \o ArgText(ArgAt(as, from)) \o Interleave(frags, as, from + 1)

IsArrayArg(arg) == arg.kind = "array"

AllSupported(arg) ==
  IsArrayArg(arg) /\ \A i \in 1..Len(arg.elems) : IsSupportedElement(arg.elems[i])

\* Every element is of the same one supported kind.
Homogeneous(arg) ==
  /\ AllSupported(arg)
  /\ \A i, j \in 1..Len(arg.elems) : arg.elems[i].kind = arg.elems[j].kind

IsBufferList(arg) ==
  IsArrayArg(arg) /\ \A i \in 1..Len(arg.elems) : arg.elems[i].kind = "buffer"

\* An argument the renderer formats without an error.
Renderable(arg) ==
  \/ arg.kind = "undefined"
  \/ IsSupportedElement(arg)
  \/ AllSupported(arg)

\* The first slot whose argument the renderer cannot format, 0 if none.
FirstBadSlot ==
  IF \A i \in 1..Len(args) : Renderable(args[i]) THEN 0
  ELSE CHOOSE i \in 1..Len(args) :
         /\ ~Renderable(args[i])
         /\ \A j \in 1..(i - 1) : Renderable(args[j])

C7_WhitespaceInsensitive ==
  msString # NotRendered =>
    /\ msString = firstMs
    /\ msString = msStringOf(StrippedTemplate(strings), args)
    /\ msString.ok =>
         msString.val = Interleave(StrippedTemplate(strings), args, 1)

\* C7 witness: a template rendered again after a whitespace edit, with a
\* string argument that itself contains a space.
C7_Witness ==
  /\ edits > 0
  /\ msString.ok
  /\ StrippedTemplate(strings) # strings
  /\ \E i \in 1..Len(args) : args[i] = StringVal("x y")

\* The template and arguments with the list in slot i spread over one slot
\* per element, the new slots separated by literal commas.
SpreadStrings(frags, i, n) ==
  IF n = 0
  THEN SubSeq(frags, 1, i - 1) \o <<frags[i] \o frags[i + 1]>>
       \o SubSeq(frags, i + 2, Len(frags))
  ELSE SubSeq(frags, 1, i) \o [k \in 1..(n - 1) |-> ","]
       \o SubSeq(frags, i + 1, Len(frags))

SpreadArgs(as, i) ==
  SubSeq(as, 1, i - 1) \o as[i].elems \o SubSeq(as, i + 1, Len(as))

\* C8: a list of N byte sequences renders as their lowercase hex strings
\* joined by commas in order, the same string as the template that takes the
\* N keys in N slots separated by literal commas.
C8_ListEqualsSeparateSlots ==
  /\ \A i \in 1..Len(args) :
       (msString.ok /\ IsBufferList(args[i])) =>
          msString = msStringOf(SpreadStrings(strings, i, Len(args[i].elems)),
                                SpreadArgs(args, i))
  /\ (msString.ok /\ edits = 0 /\ strings = <<"multi_a(2, ", ")">>) =>
       /\ args = <<ArrayVal(<<Buf1, Buf2, Buf1>>)>>
            => msString.val = "multi_a(2,abcd,00ff,abcd)"
       /\ args = <<ArrayVal(<<Buf2, Buf1>>)>>
            => msString.val = "multi_a(2,00ff,abcd)"
       /\ args = <<ArrayVal(<<Buf1>>)>> => msString.val = "multi_a(2,abcd)"

\* C8 witness: a list of three byte sequences, one of them twice, rendered.
C8_Witness ==
  /\ msString.ok
  /\ args = <<ArrayVal(<<Buf1, Buf2, Buf1>>)>>

\* ------------------------------------------------------------------------
\* Properties of the class.

FpKeys == KeysOf(lists, bufs, FpList)

CovKeys == KeysOf(lists, bufs, CovList)

\* The five invariants of the data model, on the constructor's arguments.
StakerKeyValid == params.stakerKey # Null /\ Len(bufs[params.stakerKey]) = 32

KeyListsValid ==
  /\ params.finalityProviderKeys # Null
  /\ params.covenantKeys # Null
  /\ \A i \in 1..Len(FpKeys) : Len(FpKeys[i]) = 32
  /\ \A i \in 1..Len(CovKeys) : Len(CovKeys[i]) = 32

StakingTimelockValid == 1 <= params.stakingTimelock /\ params.stakingTimelock <= 65535

ThresholdValid ==
  /\ params.covenantKeys # Null
  /\ 1 <= params.covenantThreshold
  /\ params.covenantThreshold <= Len(CovKeys)

MagicBytesValid == params.magicBytes # Null /\ Len(bufs[params.magicBytes]) > 0

FiveInvariants ==
  /\ StakerKeyValid
  /\ KeyListsValid
  /\ StakingTimelockValid
  /\ ThresholdValid
  /\ MagicBytesValid

\* C1: the constructor returns an object if and only if the five invariants
\* hold of its arguments.
C1_ConstructIffInvariants ==
  phase # "new" => (phase = "constructed" <=> FiveInvariants)

\* C2: the data push of the data embed script is magicBytes, a zero version
\* byte, the 32-byte staker key, the first finality-provider key (32 bytes)
\* and the staking timelock as two bytes, high byte first; 100 gives 00 64.
C2_PayloadLayout ==
  lastEmbed.ok =>
    LET d == lastEmbed.val.data
        magic == bufs[obj.magicBytes]
        n == Len(magic)
    IN /\ lastEmbed.val.op = OP_RETURN
       /\ Len(d) = n + 1 + 32 + 32 + 2
       /\ SubSeq(d, 1, n) = magic
       /\ d[n + 1] = 0
       /\ SubSeq(d, n + 2, n + 33) = bufs[obj.stakerKey]
       /\ SubSeq(d, n + 34, n + 65) = FpKeys[1]
       /\ d[n + 66] \in 0..255 /\ d[n + 67] \in 0..255
       /\ d[n + 66] * 256 + d[n + 67] = obj.stakingTimeLock
       /\ obj.stakingTimeLock = 100 => SubSeq(d, n + 66, n + 67) = <<0, 100>>

\* C2 witness: a payload built for timelock 100, four magic bytes and two
\* finality-provider keys.
C2_Witness ==
  /\ lastEmbed.ok
  /\ obj.stakingTimeLock = 100
  /\ Len(FpKeys) = 2
  /\ Len(bufs[obj.magicBytes]) = 4

RECURSIVE Repeat(_, _)
Repeat(str, n) ==
  IF n = 0 THEN ""
  ELSE IF n = 1 THEN str
  ELSE Repeat(str, n \div 2) \o Repeat(str, n - (n \div 2))

RECURSIVE ProviderTerms(_, _)
ProviderTerms(keys, i) ==
  IF i > Len(keys) THEN ""
  ELSE ",v:pk(" \o toStringHex(keys[i]) \o ")" \o ProviderTerms(keys, i + 1)

RECURSIVE KeyTerms(_, _)
KeyTerms(keys, i) ==
  IF i > Len(keys) THEN ""
  ELSE "," \o toStringHex(keys[i]) \o KeyTerms(keys, i + 1)

ExpectedSlashingPolicy ==
  "and_v(and_v(v:pk(" \o toStringHex(bufs[obj.stakerKey]) \o ")"
  \o ProviderTerms(FpKeys, 1) \o "),multi_a("
  \o numberToString(obj.covenantThreshold) \o KeyTerms(CovKeys, 1) \o "))"

HasWhitespace(str) ==
  \E i \in 1..Len(str) : SubSeq(str, i, i) \in {" ", "\t", "\n", "\r"}

\* C3: for at least one finality-provider key and one covenant key, the
\* slashing policy is and_v(and_v(v:pk(staker),v:pk(fp_1),...,v:pk(fp_m)),
\* multi_a(threshold,c_1,...,c_n)) without whitespace, the keys in lowercase
\* hex in the order, and with the repetitions, of the caller's lists.
C3_SlashingPolicyText ==
  (lastSlashing.ok /\ Len(FpKeys) >= 1 /\ Len(CovKeys) >= 1) =>
    /\ lastSlashing.val.policy = ExpectedSlashingPolicy
    /\ ~HasWhitespace(lastSlashing.val.policy)
    /\ (lists = [fpList |-> <<"kB">>, covList |-> <<"kC", "kA", "kA">>]
          /\ obj.covenantThreshold = 2) =>
         lastSlashing.val.policy =
           "and_v(and_v(v:pk(" \o Repeat("01", 32) \o "),v:pk("
           \o Repeat("ff", 32) \o ")),multi_a(2," \o Repeat("01", 32) \o ","
           \o Repeat("00", 32) \o "," \o Repeat("00", 32) \o "))"

\* C3 witness: a slashing script built for two provider keys and three
\* covenant keys that are neither sorted nor distinct.
C3_Witness ==
  /\ lastSlashing.ok
  /\ lists = [fpList |-> <<"kB", "kA">>, covList |-> <<"kC", "kA", "kA">>]

FirstFailing(res) ==
  CHOOSE i \in 1..Len(res) : ~res[i].ok /\ \A j \in 1..(i - 1) : res[j].ok

\* C5: buildScripts returns a bundle only when all five sub-builds succeed,
\* and then with all five fields; otherwise the caller gets the error of the
\* first sub-build that failed and no bundle.
C5_BuildScriptsAtomic ==
  scripts # NoBundle =>
    LET res == SubBuilds(obj, bufs, lists, verdicts) IN
    /\ scripts.ok <=> \A i \in 1..Len(BundleFields) : res[i].ok
    /\ scripts.ok =>
         /\ DOMAIN scripts.bundle = {BundleFields[i] : i \in 1..Len(BundleFields)}
         /\ \A i \in 1..Len(BundleFields) :
              scripts.bundle[BundleFields[i]] = res[i].val
    /\ ~scripts.ok =>
         /\ DOMAIN scripts.bundle = {}
         /\ scripts.err = res[FirstFailing(res)].err

\* C5 witness: the compiler rejected the slashing policy after the timelock
\* and unbonding scripts were built, and buildScripts failed.
C5_Witness ==
  /\ scripts # NoBundle
  /\ ~scripts.ok
  /\ verdicts = [f \in PolicyBuilds |-> f # "slashingScript"]

\* The fields whose invariant the constructor's arguments violate.
ViolatedFields ==
  (IF StakerKeyValid THEN {} ELSE {"stakerKey"})
    \cup (IF KeyListsValid THEN {} ELSE {"finalityProviderKeys", "covenantKeys"})
    \cup (IF StakingTimelockValid THEN {} ELSE {"stakingTimelock"})
    \cup (IF ThresholdValid THEN {} ELSE {"covenantThreshold"})
    \cup (IF MagicBytesValid THEN {} ELSE {"magicBytes"})

Contains(str, word) ==
  \E i \in 1..(Len(str) - Len(word) + 1) :
     SubSeq(str, i, i + Len(word) - 1) = word

\* The fields an error message names.
FieldsNamedIn(msg) ==
  {f \in {"stakerKey", "finalityProviderKeys", "covenantKeys",
          "covenantThreshold", "stakingTimelock", "magicBytes"} :
     Contains(msg, f)}

SomeInputFalsy ==
  \/ params.stakerKey = Null
  \/ params.finalityProviderKeys = Null
  \/ params.covenantKeys = Null
  \/ params.magicBytes = Null
  \/ params.covenantThreshold = 0
  \/ params.stakingTimelock = 0
  \/ params.unbondingTimelock = 0

SomeKeyLengthWrong ==
  \/ Len(bufs[params.stakerKey]) # 32
  \/ \E i \in 1..Len(FpKeys) : Len(FpKeys[i]) # 32
  \/ \E i \in 1..Len(CovKeys) : Len(CovKeys[i]) # 32

C10_EmbedNeverThrows ==
  (phase = "constructed" /\ lastEmbed # NotBuilt) => lastEmbed.ok

\* C6: whatever the caller does to the buffers and arrays it passed to the
\* constructor, every build returns what the first one returned and the
\* object keeps satisfying the invariants it was constructed under.
C6_ImmutableAfterConstruction ==
  phase = "constructed" =>
    /\ lastEmbed = firstEmbed
    /\ (lastSlashing.ok /\ firstSlashing.ok) => lastSlashing = firstSlashing
    /\ validate(obj, bufs, lists)
    /\ obj.covenantThreshold <= Len(CovKeys)

====
